---------------------------- MODULE Spec2Model ----------------------------
(***************************************************************************)
(* Memory relationship graph of LifeLink: the pairwise relationship scorer *)
(* (RelationshipService._analyze_relationship), the graph builder          *)
(* (RelationshipService.find_relationships) and the graph endpoint         *)
(* (get_memory_graph) of docs/features/memory-graph-implementation.md.     *)
(*                                                                         *)
(* Units.  Strengths are Python floats in the source; here they are exact  *)
(* fixed-point numbers in thousandths (0.3 is 300).  Cosine similarities   *)
(* are in hundredths (0.7 is 70), so similarity * 0.4 is similarity * 4    *)
(* thousandths.  Creation timestamps are counted in half days, so that two *)
(* memories can be 6.5 days apart; timedelta.days is the floor of the      *)
(* signed difference in whole days.  The input domains below are chosen so *)
(* that every comparison of a strength (> 0.3, >= min_strength) has the    *)
(* same outcome in this exact arithmetic as in binary floating point.      *)
(***************************************************************************)
EXTENDS Integers, Sequences, FiniteSets, TLC

VARIABLES
    memories,   \* the user's Memory documents, in the order Memory.find returns them
    graphs,     \* per min_strength: the graph_data returned for the current memories
    scored,     \* the last call of _analyze_relationship: its arguments and its result
    response,   \* the last response of the graph or the cluster endpoint
    cluster,    \* detect_memory_clusters: its arguments and its result
    manual,     \* the stored manual relationships, and the relate calls made
    pathq,      \* find_memory_path: its arguments and its result
    view,       \* the state of the MemoryGraphView component and its requests
    kw,         \* AIManager.extractKeywords: its argument and its result
    card,       \* a rendered MemoryCard and the calls of its onDelete callback
    ai,         \* AIManager: its preferences and the last generateResponse call
    app,        \* the App component: memories list, draft, saves and deletes
    auth        \* localStorage's token and user, and the requests of authApi

vars == <<memories, graphs, scored, response, cluster, manual, pathq, view,
          kw, card, ai, app, auth>>

---------------------------------------------------------------------------
(* Bounds and input domains *)

MaxMemories == 3

NoMood == "None"
NoGraph == [nodes |-> <<>>, status |-> "none", none |-> TRUE]
NoScore == [done |-> FALSE, none |-> TRUE]
NoResponse == [kind |-> "none"]
NoCluster == [done |-> FALSE, none |-> TRUE]
NoManual == [stored |-> {}, calls |-> 0]
NoPath == [done |-> FALSE, none |-> TRUE]
NoView == [mounted |-> FALSE, step |-> "none"]
NoKeywords == [done |-> FALSE, none |-> TRUE]
NoCard == [rendered |-> FALSE, none |-> TRUE]
NoAI == [done |-> FALSE, none |-> TRUE]
NoApp == [mounted |-> FALSE, none |-> TRUE]
NoAuth == [loaded |-> FALSE, none |-> TRUE]

\* The parts of the state that belong to the browser-side modules
ClientIdle ==
    /\ kw = NoKeywords
    /\ card = NoCard
    /\ ai = NoAI
    /\ app = NoApp
    /\ auth = NoAuth

\* Memory texts: 1 "Went hiking with Sam", 2 "Hiking trip was amazing, Sam
\* joined", 3 a text without named entities, 4 and 5 two texts naming the same
\* five people.
Texts == 1..5
Moods == {NoMood, "happy", "sad"}
\* Half days: 0 and 13 are 6.5 days apart, 0 and 14 a week, 0 and 120 sixty days.
CreatedAtValues == {0, 13, 14, 120}

\* The memories the storage holds in the graph specification.
StoredTexts == {1, 2, 3}
StoredMoods == {NoMood, "happy"}
StoredCreatedAt == {0, 120}
MinStrengthValues == {0, 300, 500}

---------------------------------------------------------------------------
(* The injected NLP capabilities, as fixed functions of the text *)

\* SentenceTransformer.encode: one embedding per text (all of norm 10).
encode(text) ==
    CASE text = 1 -> <<10, 0, 0, 0>>
      [] text = 2 -> <<8, 6, 0, 0>>
      [] text = 3 -> <<7, 1, 1, 7>>
      [] text = 4 -> <<0, 0, 10, 0>>
      [] OTHER    -> <<0, 0, 6, 8>>

\* spaCy named entities of the text, lower-cased.
extract_entities(text) ==
    CASE text \in {1, 2} -> {"sam"}
      [] text = 3        -> {}
      [] OTHER           -> {"anna", "ben", "cara", "dan", "eve"}

\* The sum of a[k] * b[k] over the first n components
RECURSIVE DotUpTo(_, _, _)
DotUpTo(a, b, n) ==
    IF n = 0 THEN 0 ELSE a[n] * b[n] + DotUpTo(a, b, n - 1)

Dot(a, b) == DotUpTo(a, b, Len(a))

\* The largest n at or above lower with n * n <= d
RECURSIVE IntegerSqrt(_, _)
IntegerSqrt(d, lower) ==
    IF (lower + 1) * (lower + 1) > d THEN lower ELSE IntegerSqrt(d, lower + 1)

\* The Euclidean norm, rounded down to a whole number
Norm(a) == IntegerSqrt(Dot(a, a), 0)

\* sklearn cosine_similarity of two embeddings, in hundredths; a zero vector
\* is normalised with norm 1 and so has similarity 0 to everything.
cosine_similarity(a, b) ==
    LET norm_a == Norm(a)
        norm_b == Norm(b)
        na == IF norm_a = 0 THEN 1 ELSE norm_a
        nb == IF norm_b = 0 THEN 1 ELSE norm_b
    IN  (100 * Dot(a, b)) \div (na * nb)

\* cosine_similarity(embeddings) of find_relationships, computed once for all
\* texts: the similarity of every pair of texts
SimilarityOfTexts ==
    [text1 \in Texts |-> [text2 \in Texts |->
        cosine_similarity(encode(text1), encode(text2))]]

\* similarity_matrix[i][j] of find_relationships
similarity_matrix(mems, i, j) == SimilarityOfTexts[mems[i].text][mems[j].text]

---------------------------------------------------------------------------
(* RelationshipService._analyze_relationship *)

SimilarityThreshold == 70
SemanticWeight == 4
WeekDays == 7
TemporalWeight == 300
EntityWeight == 100
MoodWeight == 200

Abs(x) == IF x < 0 THEN -x ELSE x

\* timedelta.days of a difference given in half days: the floor
Days(delta) == delta \div 2

time_diff(mem1, mem2) == Abs(Days(mem1.created_at - mem2.created_at))

NewRelationship(mem1, mem2) ==
    [source |-> mem1.id, target |-> mem2.id, strength |-> 0,
     type |-> "related", reasons |-> <<>>]

\* 1. Semantic similarity
SemanticSimilarity(relationship, similarity) ==
    IF similarity > SimilarityThreshold
    THEN [relationship EXCEPT
            !.strength = @ + similarity * SemanticWeight,
            !.reasons = Append(@, "semantic_similarity")]
    ELSE relationship

\* 2. Temporal proximity
TemporalProximity(relationship, mem1, mem2) ==
    IF time_diff(mem1, mem2) < WeekDays
    THEN [relationship EXCEPT
            !.strength = @ + TemporalWeight,
            !.type = "temporal",
            !.reasons = Append(@, "temporal_proximity")]
    ELSE relationship

entity_overlap(mem1, mem2) ==
    Cardinality(extract_entities(mem1.text) \cap extract_entities(mem2.text))

\* Mutant of EntityOverlap: every shared entity weighs 0.2
EntityOverlapDoubleWeight(relationship, mem1, mem2) ==
    IF entity_overlap(mem1, mem2) > 0
    THEN [relationship EXCEPT
            !.strength = @ + entity_overlap(mem1, mem2) * 2 * EntityWeight,
            !.type = "entity_based",
            !.reasons = Append(@, "shared_entities")]
    ELSE relationship

\* 3. Entity overlap
EntityOverlap(relationship, mem1, mem2) ==
    IF entity_overlap(mem1, mem2) > 0
    THEN [relationship EXCEPT
            !.strength = @ + entity_overlap(mem1, mem2) * EntityWeight,
            !.type = "entity_based",
            !.reasons = Append(@, "shared_entities")]
    ELSE relationship

\* Mutant of MoodCorrelation: the reason tag is not appended
MoodCorrelationNoReason(relationship, mem1, mem2) ==
    IF mem1.mood = mem2.mood
    THEN [relationship EXCEPT !.strength = @ + MoodWeight]
    ELSE relationship

\* 4. Mood correlation: mem1.get('mood') == mem2.get('mood'), None included
MoodCorrelation(relationship, mem1, mem2) ==
    IF mem1.mood = mem2.mood
    THEN [relationship EXCEPT
            !.strength = @ + MoodWeight,
            !.reasons = Append(@, "same_mood")]
    ELSE relationship

analyze_relationship(mem1, mem2, similarity) ==
    LET r0 == NewRelationship(mem1, mem2)
        r1 == SemanticSimilarity(r0, similarity)
        r2 == TemporalProximity(r1, mem1, mem2)
        r3 == EntityOverlap(r2, mem1, mem2)
        r4 == MoodCorrelation(r3, mem1, mem2)
    IN  r4

---------------------------------------------------------------------------
(* RelationshipService.find_relationships *)

Threshold == 300

\* Mutant of FirstInner: the inner loop starts at i itself
FirstInnerSelf(i) == i

\* range(i + 1, len(memories)): the first j of the inner loop
FirstInner(i) == i + 1

Qualifies(relationship) == relationship.strength > Threshold

\* The two nested loops.  acc.relationships is the list being built; acc.calls
\* records, per call of _analyze_relationship, the ids of its two memories.
RECURSIVE InnerLoop(_, _, _, _)
InnerLoop(mems, i, j, acc) ==
    IF j > Len(mems) THEN acc
    ELSE LET relationship ==
                 analyze_relationship(mems[i], mems[j], similarity_matrix(mems, i, j))
         IN  InnerLoop(mems, i, j + 1,
                 [relationships |->
                      IF Qualifies(relationship)
                      THEN Append(acc.relationships, relationship)
                      ELSE acc.relationships,
                  calls |-> Append(acc.calls, <<mems[i].id, mems[j].id>>)])

RECURSIVE OuterLoop(_, _, _)
OuterLoop(mems, i, acc) ==
    IF i > Len(mems) THEN acc
    ELSE OuterLoop(mems, i + 1, InnerLoop(mems, i, FirstInner(i), acc))

find_relationships(mems) ==
    OuterLoop(mems, 1, [relationships |-> <<>>, calls |-> <<>>])

---------------------------------------------------------------------------
(* get_memory_graph *)

DefaultMinStrength == 300

\* Mutant of MeetsMinStrength: the comparison is reversed
MeetsMinStrengthReversed(relationship, min_strength) ==
    relationship.strength <= min_strength

MeetsMinStrength(relationship, min_strength) == relationship.strength >= min_strength

RECURSIVE SumStrength(_)
SumStrength(relationships) ==
    IF relationships = <<>> THEN 0
    ELSE Head(relationships).strength + SumStrength(Tail(relationships))

\* np.mean of the strengths, as the exact fraction num / den
Mean(relationships) ==
    [num |-> SumStrength(relationships), den |-> Len(relationships)]

\* Mutant of Stats: the mean divides by the number of memories
StatsMeanOverMemories(mems, relationships) ==
    [total_memories |-> Len(mems),
     total_connections |-> Len(relationships),
     avg_connection_strength |->
         IF relationships # <<>>
         THEN [num |-> SumStrength(relationships), den |-> Len(mems)]
         ELSE [num |-> 0, den |-> 1]]

Stats(mems, relationships) ==
    [total_memories |-> Len(mems),
     total_connections |-> Len(relationships),
     avg_connection_strength |->
         IF relationships # <<>> THEN Mean(relationships) ELSE [num |-> 0, den |-> 1]]

Node(m) == [id |-> m.id, text |-> m.text, mood |-> m.mood, created_at |-> m.created_at]

\* The current time of a request, in half days
Now == 120

ValidTimeRanges == {"week", "month", "year"}

\* The number of days a time range reaches back
RangeDays(time_range) ==
    CASE time_range = "week"  -> 7
      [] time_range = "month" -> 30
      [] OTHER                -> 365

\* filter_by_time_range: the memories created within the last N days from now
filter_by_time_range(mems, time_range) ==
    SelectSeq(mems, LAMBDA m : Now - m.created_at <= 2 * RangeDays(time_range))

\* A request that ends with an exception instead of graph_data
GraphError(reason) ==
    [nodes |-> <<>>, edges |-> <<>>, stats |-> Stats(<<>>, <<>>), calls |-> <<>>,
     status |-> "error", reason |-> reason, fetched |-> TRUE, none |-> FALSE]

\* The handler.  stored are the user's Memory documents; failing is the id of
\* a memory whose text the encoder cannot embed (0: none).  The memories are
\* fetched first; nothing checks time_range or min_strength before that.
\* encoder.encode raises for the failing text, and cosine_similarity raises a
\* ValueError for an empty list of embeddings.
memory_graph(stored, time_range, min_strength, failing) ==
    IF time_range # "all" /\ time_range \notin ValidTimeRanges
    THEN GraphError("time_range")
    ELSE LET mems == IF time_range # "all"
                     THEN filter_by_time_range(stored, time_range)
                     ELSE stored
         IN  IF \E k \in 1..Len(mems) : mems[k].id = failing
             THEN GraphError("encode")
             ELSE IF mems = <<>>
             THEN GraphError("ValueError")
             ELSE LET found == find_relationships(mems)
                      relationships ==
                          SelectSeq(found.relationships,
                                    LAMBDA r : MeetsMinStrength(r, min_strength))
                  IN  [nodes |-> [k \in 1..Len(mems) |-> Node(mems[k])],
                       edges |-> relationships,
                       stats |-> Stats(mems, relationships),
                       calls |-> found.calls,
                       status |-> "ok", reason |-> "", fetched |-> TRUE,
                       none |-> FALSE]

\* The handler for time_range = "all" (no time filter applied) and no failure
\* of the encoder.
get_memory_graph(mems, min_strength) == memory_graph(mems, "all", min_strength, 0)

---------------------------------------------------------------------------
(* detect_memory_clusters *)

\* The keywords of the memory texts
Keywords(text) ==
    CASE text = 1 -> <<"hiking", "sam">>
      [] text = 2 -> <<"hiking", "trip", "sam">>
      [] text = 3 -> <<"work">>
      [] OTHER    -> <<"party", "anna">>

RECURSIVE AllKeywords(_)
AllKeywords(cluster_memories) ==
    IF cluster_memories = <<>> THEN <<>>
    ELSE Keywords(Head(cluster_memories).text) \o AllKeywords(Tail(cluster_memories))

Occurrences(words, word) == Cardinality({k \in 1..Len(words) : words[k] = word})

\* detect_cluster_theme: the most frequent keyword of the member memories,
\* the first seen among the most frequent ones
detect_cluster_theme(cluster_memories) ==
    LET words == AllKeywords(cluster_memories)
    IN  IF words = <<>> THEN ""
        ELSE words[CHOOSE k \in 1..Len(words) :
                 /\ \A l \in 1..Len(words) :
                        Occurrences(words, words[l]) <= Occurrences(words, words[k])
                 /\ \A l \in 1..(k - 1) :
                        Occurrences(words, words[l]) < Occurrences(words, words[k])]

NodeIds(mems) == {mems[k].id : k \in 1..Len(mems)}

\* G.add_node for every memory, G.add_edge for every relationship
GraphNodes(relationships, mems) ==
    NodeIds(mems) \cup UNION {{relationships[k].source, relationships[k].target} :
                                 k \in 1..Len(relationships)}

Adjacent(relationships, a, b) ==
    \E k \in 1..Len(relationships) :
        {relationships[k].source, relationships[k].target} = {a, b}

RECURSIVE ReachableFrom(_, _, _, _)
ReachableFrom(relationships, nodes, reached, steps) ==
    IF steps = 0 THEN reached
    ELSE ReachableFrom(relationships, nodes,
             reached \cup {b \in nodes : \E a \in reached : Adjacent(relationships, a, b)},
             steps - 1)

\* The connected component of a node of G
Component(relationships, nodes, n) ==
    ReachableFrom(relationships, nodes, {n}, Cardinality(nodes))

\* The ways to divide nodes into disjoint non-empty sets, none of which
\* spans two connected components
RECURSIVE PartitionsOf(_, _)
PartitionsOf(nodes, component) ==
    IF nodes = {} THEN {{}}
    ELSE LET x == CHOOSE v \in nodes : TRUE
             rest == PartitionsOf(nodes \ {x}, component)
         IN  {P \cup {{x}} : P \in rest}
             \cup UNION {{(P \ {B}) \cup {B \cup {x}} :
                             B \in {C \in P : C \subseteq component[x]}} : P \in rest}

\* The orders in which a set of communities can be listed
RECURSIVE OrdersOf(_)
OrdersOf(P) ==
    IF P = {} THEN {<<>>}
    ELSE UNION {{<<B>> \o q : q \in OrdersOf(P \ {B})} : B \in P}

\* community.louvain_communities(G): a list of disjoint non-empty sets of
\* nodes that covers all nodes of G, in an order the library chooses (it
\* shuffles with an unseeded random generator).  A node only ever joins the
\* community of a neighbour, so no community spans two connected components
\* and a node without an edge is a community of its own.
LouvainOutcomes(relationships, mems) ==
    LET nodes == GraphNodes(relationships, mems)
        component == [u \in nodes |-> Component(relationships, nodes, u)]
    IN  UNION {OrdersOf(P) : P \in PartitionsOf(nodes, component)}

\* Mutant of ClusterMemories: the memories are not filtered by the community
ClusterMemoriesUnfiltered(mems, community_nodes) == mems

\* [m for m in memories if m['id'] in community_nodes]
ClusterMemories(mems, community_nodes) ==
    SelectSeq(mems, LAMBDA m : m.id \in community_nodes)

\* The loop over the communities; cluster i - 1 is 'cluster_{i-1}'.
detect_memory_clusters(relationships, mems, communities) ==
    [i \in 1..Len(communities) |->
        [id |-> i - 1,
         memories |-> ClusterMemories(mems, communities[i]),
         theme |-> detect_cluster_theme(ClusterMemories(mems, communities[i])),
         size |-> Cardinality(communities[i])]]

---------------------------------------------------------------------------
(* The graph service: stored memories and graph requests *)

Init ==
    /\ memories = <<>>
    /\ ClientIdle
    /\ graphs = [t \in MinStrengthValues |-> NoGraph]
    /\ scored = NoScore
    /\ response = NoResponse
    /\ cluster = NoCluster
    /\ manual = NoManual
    /\ pathq = NoPath
    /\ view = NoView

\* A memory is stored for the user; it gets a fresh id.  The graphs returned
\* so far were computed for the previous memory set.
CreateMemory(text, created_at, mood) ==
    /\ Len(memories) < MaxMemories
    /\ memories' = Append(memories,
           [id |-> Len(memories) + 1, text |-> text,
            created_at |-> created_at, mood |-> mood])
    /\ graphs' = [t \in MinStrengthValues |-> NoGraph]
    /\ response' = NoResponse
    /\ UNCHANGED <<scored, cluster, manual, pathq, view, kw, card, ai, app, auth>>

\* GET /memories/graph?time_range=all&min_strength=...
GetMemoryGraph(min_strength) ==
    /\ graphs' = [graphs EXCEPT ![min_strength] = get_memory_graph(memories, min_strength)]
    /\ UNCHANGED <<memories, scored, response, cluster, manual, pathq, view, kw, card, ai, app, auth>>

Next ==
    \/ \E text \in StoredTexts, created_at \in StoredCreatedAt, mood \in StoredMoods :
           CreateMemory(text, created_at, mood)
    \/ \E min_strength \in MinStrengthValues : GetMemoryGraph(min_strength)

Spec == Init /\ [][Next]_vars

---------------------------------------------------------------------------
(* The graph and the cluster endpoint, with every kind of request *)

QueryTexts == {1, 3}
QueryCreatedAt == {100, 113}
QueryMoods == {NoMood}

\* The requests: time_range and min_strength as the caller passes them, and
\* the id of the memory the encoder fails on (0: none)
GraphRequests ==
    {[time_range |-> t, min_strength |-> DefaultMinStrength, failing |-> 0] :
        t \in {"all", "week", "decade"}}
    \cup {[time_range |-> "all", min_strength |-> s, failing |-> 0] : s \in {-100, 1500}}
    \cup {[time_range |-> "all", min_strength |-> DefaultMinStrength, failing |-> 1]}

\* Memory.find has no sort: the documents come in an order the database
\* chooses.  Two orders are considered, the order of creation and its reverse.
Orders(n) == {[k \in 1..n |-> k], [k \in 1..n |-> n + 1 - k]}

Reorder(mems, order) == [k \in 1..Len(mems) |-> mems[order[k]]]

\* GET /memories/graph?time_range=...&min_strength=...
RequestGraph(request, order) ==
    /\ response' = [kind |-> "graph",
                    time_range |-> request.time_range,
                    min_strength |-> request.min_strength,
                    failing |-> request.failing,
                    order |-> order,
                    graph |-> memory_graph(Reorder(memories, order), request.time_range,
                                           request.min_strength, request.failing)]
    /\ UNCHANGED <<memories, graphs, scored, cluster, manual, pathq, view, kw, card, ai, app, auth>>

\* POST /memories/detect-clusters, on the relationships and memories of the
\* graph last returned; communities is what louvain_communities returns.
DetectClusters ==
    /\ response.kind = "graph"
    /\ response.graph.status = "ok"
    /\ \E communities \in LouvainOutcomes(response.graph.edges, response.graph.nodes) :
           response' = [kind |-> "clusters",
                        graph |-> response.graph,
                        communities |-> communities,
                        clusters |-> detect_memory_clusters(response.graph.edges,
                                                            response.graph.nodes,
                                                            communities)]
    /\ UNCHANGED <<memories, graphs, scored, cluster, manual, pathq, view, kw, card, ai, app, auth>>

QueryNext ==
    \/ \E text \in QueryTexts, created_at \in QueryCreatedAt, mood \in QueryMoods :
           CreateMemory(text, created_at, mood)
    \/ \E request \in GraphRequests, order \in Orders(Len(memories)) :
           RequestGraph(request, order)
    \/ DetectClusters

QuerySpec == Init /\ [][QueryNext]_vars

---------------------------------------------------------------------------
(* The graph endpoint over a collection that holds several users' memories *)

Users == {"ann", "bob"}
OwnerTexts == {1}
OwnerCreatedAt == {0, 100, 113}
OwnerTimeRanges == {"all", "week", "month"}
OwnerMinStrengths == {DefaultMinStrength, 500}

\* A memory is stored for a user
StoreMemory(user_id, text, created_at) ==
    /\ Len(memories) < MaxMemories
    /\ memories' = Append(memories,
           [id |-> Len(memories) + 1, user_id |-> user_id, text |-> text,
            created_at |-> created_at, mood |-> NoMood])
    /\ response' = NoResponse
    /\ UNCHANGED <<graphs, scored, cluster, manual, pathq, view, kw, card, ai, app, auth>>

\* Mutant of find: the collection is not filtered by the user
findAll(collection, user_id) == collection

\* Memory.find(Memory.user_id == current_user.id).to_list()
find(collection, user_id) ==
    SelectSeq(collection, LAMBDA m : m.user_id = user_id)

\* GET /memories/graph?time_range=...&min_strength=... by current_user
GetUserGraph(current_user, time_range, min_strength) ==
    /\ response' = [kind |-> "graph",
                    current_user |-> current_user,
                    time_range |-> time_range,
                    min_strength |-> min_strength,
                    graph |-> memory_graph(find(memories, current_user), time_range,
                                           min_strength, 0)]
    /\ UNCHANGED <<memories, graphs, scored, cluster, manual, pathq, view, kw, card, ai, app, auth>>

OwnerNext ==
    \/ \E user_id \in Users, text \in OwnerTexts, created_at \in OwnerCreatedAt :
           StoreMemory(user_id, text, created_at)
    \/ \E current_user \in Users, time_range \in OwnerTimeRanges,
          min_strength \in OwnerMinStrengths :
           GetUserGraph(current_user, time_range, min_strength)

OwnerSpec == Init /\ [][OwnerNext]_vars

---------------------------------------------------------------------------
(* detect_memory_clusters alone, on graphs of up to MaxClusterNodes memories *)

MaxClusterNodes == 5

\* The memories of a graph of n nodes: ids 1..n, the texts in rotation
ClusterNodes(n) == [k \in 1..n |-> [id |-> k, text |-> ((k - 1) % 4) + 1]]

\* The pairs that may be related: neighbours in the list, and the first and
\* the third memory (which closes a triangle)
CandidatePairs(n) ==
    [k \in 1..(n - 1) |-> <<k, k + 1>>] \o (IF n >= 3 THEN << <<1, 3>> >> ELSE <<>>)

\* The relationships between the chosen pairs, as find_relationships would
\* list them for strength 0.5
ClusterRelationships(n, chosen) ==
    LET numbered == [k \in 1..Len(CandidatePairs(n)) |->
                        [k |-> k, pair |-> CandidatePairs(n)[k]]]
        kept == SelectSeq(numbered, LAMBDA c : c.k \in chosen)
    IN  [k \in 1..Len(kept) |->
            [source |-> kept[k].pair[1], target |-> kept[k].pair[2], strength |-> 500,
             type |-> "temporal", reasons |-> <<"temporal_proximity", "same_mood">>]]

ClusterInit ==
    /\ memories = <<>>
    /\ ClientIdle
    /\ graphs = [t \in MinStrengthValues |-> NoGraph]
    /\ scored = NoScore
    /\ response = NoResponse
    /\ manual = NoManual
    /\ pathq = NoPath
    /\ view = NoView
    /\ \E n \in 0..MaxClusterNodes :
           \E chosen \in SUBSET (1..Len(CandidatePairs(n))) :
               cluster = [done |-> FALSE, none |-> FALSE,
                          memories |-> ClusterNodes(n),
                          relationships |-> ClusterRelationships(n, chosen),
                          communities |-> <<>>,
                          clusters |-> <<>>]

\* One call of detect_memory_clusters(relationships, memories)
DetectMemoryClusters ==
    /\ ~cluster.none
    /\ ~cluster.done
    /\ \E communities \in LouvainOutcomes(cluster.relationships, cluster.memories) :
           cluster' = [cluster EXCEPT
                          !.done = TRUE,
                          !.communities = communities,
                          !.clusters = detect_memory_clusters(cluster.relationships,
                                                              cluster.memories,
                                                              communities)]
    /\ UNCHANGED <<memories, graphs, scored, response, manual, pathq, view, kw, card, ai, app, auth>>

ClusterNext == DetectMemoryClusters

ClusterSpec == ClusterInit /\ [][ClusterNext]_vars

---------------------------------------------------------------------------
(* Manual relationships and the graph endpoint *)

MaxManual == 2

ManualTexts == {1, 3}
ManualCreatedAt == {100}
ManualStrengths == {800, 300}

\* POST /memories/{source}/relate/{target}?relationship_type=manual&strength=...
\* persists a MemoryRelationship of type manual, replacing an earlier one of
\* the same pair.
RelateMemories(source, target, strength) ==
    /\ manual.calls < MaxManual
    /\ source \in 1..Len(memories)
    /\ target \in 1..Len(memories)
    /\ source # target
    /\ manual' = [stored |->
                     {r \in manual.stored :
                         {r.source_memory_id, r.target_memory_id} # {source, target}}
                     \cup {[source_memory_id |-> source, target_memory_id |-> target,
                            relationship_type |-> "manual", strength |-> strength]},
                  calls |-> manual.calls + 1]
    /\ response' = [kind |-> "related", source |-> source, target |-> target]
    /\ UNCHANGED <<memories, graphs, scored, cluster, pathq, view, kw, card, ai, app, auth>>

ManualNext ==
    \/ \E text \in ManualTexts, created_at \in ManualCreatedAt :
           CreateMemory(text, created_at, NoMood)
    \/ \E source \in 1..MaxMemories, target \in 1..MaxMemories,
          strength \in ManualStrengths :
           RelateMemories(source, target, strength)
    \/ \E request \in {r \in GraphRequests : r.failing = 0 /\ r.time_range = "all"} :
           RequestGraph(request, [k \in 1..Len(memories) |-> k])

ManualSpec == Init /\ [][ManualNext]_vars

---------------------------------------------------------------------------
(* find_memory_path: Dijkstra's algorithm on the relationship graph *)

MaxPathNodes == 4

PathStrengths == {500, 900}

\* The distance of a node that has not been reached
Infinity == 1000000

\* Mutant of Cost: the cost grows with the strength
CostIncreasing(strength) == strength

\* The cost of an edge: 1 - strength, stronger connections are closer
Cost(strength) == 1000 - strength

\* The cost of the edge between two adjacent nodes
EdgeCost(relationships, a, b) ==
    LET k == CHOOSE l \in 1..Len(relationships) :
                 {relationships[l].source, relationships[l].target} = {a, b}
    IN  Cost(relationships[k].strength)

\* The main loop: take the unvisited node of least distance, relax its edges
RECURSIVE Visit(_, _, _, _, _)
Visit(relationships, nodes, dist, prev, visited) ==
    LET frontier == {v \in nodes \ visited : dist[v] < Infinity}
    IN  IF frontier = {} THEN [dist |-> dist, prev |-> prev]
        ELSE LET u == CHOOSE v \in frontier : \A w \in frontier : dist[v] <= dist[w]
                 shorter == {v \in nodes \ visited :
                                /\ Adjacent(relationships, u, v)
                                /\ dist[u] + EdgeCost(relationships, u, v) < dist[v]}
             IN  Visit(relationships, nodes,
                       [v \in nodes |-> IF v \in shorter
                                        THEN dist[u] + EdgeCost(relationships, u, v)
                                        ELSE dist[v]],
                       [v \in nodes |-> IF v \in shorter THEN u ELSE prev[v]],
                       visited \cup {u})

\* The path from source to node, read backwards from the predecessors
RECURSIVE PathTo(_, _, _)
PathTo(prev, source, node) ==
    IF node = source THEN <<source>>
    ELSE Append(PathTo(prev, source, prev[node]), node)

\* GET /memories/{memory_id}/path/{target_id}
find_memory_path(relationships, nodes, memory_id, target_id) ==
    LET result == Visit(relationships, nodes,
                        [v \in nodes |-> IF v = memory_id THEN 0 ELSE Infinity],
                        [v \in nodes |-> v], {})
    IN  IF result.dist[target_id] = Infinity
        THEN [found |-> FALSE, path |-> <<>>]
        ELSE [found |-> TRUE, path |-> PathTo(result.prev, memory_id, target_id)]

\* The relationships of a graph of n memories: the candidate pairs with the
\* strengths given (0: the pair is not related)
PathRelationships(n, strengths) ==
    LET numbered == [k \in 1..Len(CandidatePairs(n)) |->
                        [k |-> k, pair |-> CandidatePairs(n)[k]]]
        kept == SelectSeq(numbered, LAMBDA c : strengths[c.k] > 0)
    IN  [k \in 1..Len(kept) |->
            [source |-> kept[k].pair[1], target |-> kept[k].pair[2],
             strength |-> strengths[kept[k].k],
             type |-> "temporal", reasons |-> <<"temporal_proximity", "same_mood">>]]

PathInit ==
    /\ memories = <<>>
    /\ ClientIdle
    /\ graphs = [t \in MinStrengthValues |-> NoGraph]
    /\ scored = NoScore
    /\ response = NoResponse
    /\ cluster = NoCluster
    /\ manual = NoManual
    /\ view = NoView
    /\ \E n \in 2..MaxPathNodes :
           \E strengths \in [1..Len(CandidatePairs(n)) -> {0} \cup PathStrengths],
              memory_id \in 1..n, target_id \in 1..n :
               pathq = [done |-> FALSE, none |-> FALSE,
                        nodes |-> 1..n,
                        relationships |-> PathRelationships(n, strengths),
                        memory_id |-> memory_id, target_id |-> target_id,
                        found |-> FALSE, path |-> <<>>]

FindMemoryPath ==
    /\ ~pathq.none
    /\ ~pathq.done
    /\ LET result == find_memory_path(pathq.relationships, pathq.nodes,
                                      pathq.memory_id, pathq.target_id)
       IN  pathq' = [pathq EXCEPT !.done = TRUE, !.found = result.found,
                                  !.path = result.path]
    /\ UNCHANGED <<memories, graphs, scored, response, cluster, manual, view, kw, card, ai, app, auth>>

PathNext == FindMemoryPath

PathSpec == PathInit /\ [][PathNext]_vars

---------------------------------------------------------------------------
(* The MemoryGraphView component of the frontend and the requests it sends *)

MaxInFlight == 3

TimeRanges == {"week", "month", "year", "all"}
SliderValues == {300, 500}

NoRequests == [graph |-> 0, detect |-> 0, analyze |-> 0]

\* The component after useState: graphData null, timeRange 'month',
\* minStrength 0.3, loading true, error null, analyzing false.  effect and
\* handler count the getMemoryGraph requests in flight that the effect (or
\* Retry) and the two handlers started; detect and analyze count the
\* detect-clusters and analyze-relationships requests in flight.  step is
\* the last step taken and issued the requests it sent.
InitialView ==
    [mounted |-> FALSE, timeRange |-> "month", minStrength |-> DefaultMinStrength,
     loading |-> TRUE, error |-> FALSE, analyzing |-> FALSE, hasData |-> FALSE,
     effect |-> 0, handler |-> 0, detect |-> 0, analyze |-> 0,
     step |-> "none", issued |-> NoRequests]

InFlight(v) == v.effect + v.handler + v.detect + v.analyze

\* A new step: nothing sent yet
Begin(v, step) == [v EXCEPT !.step = step, !.issued = NoRequests]

\* Mutant of loadGraphData: loading the graph also requests the clusters
loadGraphDataWithClusters(v, by) ==
    [v EXCEPT !.loading = TRUE, !.error = FALSE,
              !.effect = IF by = "effect" THEN @ + 1 ELSE @,
              !.handler = IF by = "handler" THEN @ + 1 ELSE @,
              !.detect = @ + 1,
              !.issued.graph = @ + 1,
              !.issued.detect = @ + 1]

\* loadGraphData up to its await: setLoading(true), setError(null),
\* getMemoryGraph(timeRange, minStrength)
loadGraphData(v, by) ==
    [v EXCEPT !.loading = TRUE, !.error = FALSE,
              !.effect = IF by = "effect" THEN @ + 1 ELSE @,
              !.handler = IF by = "handler" THEN @ + 1 ELSE @,
              !.issued.graph = @ + 1]

\* The controls are rendered: not the loading view, not the error view
ControlsShown == view.mounted /\ ~view.loading /\ ~view.error

FrontendUnchanged == UNCHANGED <<memories, graphs, scored, response, cluster, manual, pathq, kw, card, ai, app, auth>>

\* The first render: the effect runs
Mount ==
    /\ ~view.mounted
    /\ view' = loadGraphData([Begin(view, "mount") EXCEPT !.mounted = TRUE], "effect")
    /\ FrontendUnchanged

\* The time range select changes: the effect runs again
SetTimeRange(value) ==
    /\ ControlsShown
    /\ InFlight(view) < MaxInFlight
    /\ value # view.timeRange
    /\ view' = loadGraphData([Begin(view, "setTimeRange") EXCEPT !.timeRange = value],
                             "effect")
    /\ FrontendUnchanged

\* The strength slider changes: the effect runs again
SetMinStrength(value) ==
    /\ ControlsShown
    /\ InFlight(view) < MaxInFlight
    /\ value # view.minStrength
    /\ view' = loadGraphData([Begin(view, "setMinStrength") EXCEPT !.minStrength = value],
                             "effect")
    /\ FrontendUnchanged

\* The Retry button of the error view
Retry ==
    /\ view.mounted /\ ~view.loading /\ view.error
    /\ InFlight(view) < MaxInFlight
    /\ view' = loadGraphData(Begin(view, "retry"), "effect")
    /\ FrontendUnchanged

\* handleDetectClusters up to its await; the button is disabled while
\* analyzing or without data
ClickDetectClusters ==
    /\ ControlsShown
    /\ InFlight(view) < MaxInFlight
    /\ ~view.analyzing
    /\ view.hasData
    /\ view' = [Begin(view, "clickDetectClusters") EXCEPT
                   !.analyzing = TRUE, !.detect = @ + 1, !.issued.detect = @ + 1]
    /\ FrontendUnchanged

\* handleAnalyzeRelationships up to its await; the button of the controls is
\* disabled while analyzing, the one of the empty view is not
ClickAnalyzeRelationships ==
    /\ ControlsShown
    /\ InFlight(view) < MaxInFlight
    /\ ~view.analyzing \/ ~view.hasData
    /\ view' = [Begin(view, "clickAnalyzeRelationships") EXCEPT
                   !.analyzing = TRUE, !.analyze = @ + 1, !.issued.analyze = @ + 1]
    /\ FrontendUnchanged

\* getMemoryGraph settles: loadGraphData continues after its await, and a
\* handler that awaited loadGraphData reaches its finally
GraphResponse(by, outcome) ==
    /\ view.mounted
    /\ view[by] > 0
    /\ view' = [Begin(view, "graphResponse") EXCEPT
                   ![by] = @ - 1,
                   !.loading = FALSE,
                   !.error = IF outcome = "error" THEN TRUE ELSE @,
                   !.hasData = CASE outcome = "data"  -> TRUE
                                 [] outcome = "empty" -> FALSE
                                 [] OTHER             -> @,
                   !.analyzing = IF by = "handler" THEN FALSE ELSE @]
    /\ FrontendUnchanged

\* detectClusters settles: on success the handler reloads the graph, on
\* failure it alerts and reaches its finally
DetectResponse(ok) ==
    /\ view.detect > 0
    /\ view' = IF ok
               THEN loadGraphData([Begin(view, "detectResolved") EXCEPT !.detect = @ - 1],
                                  "handler")
               ELSE [Begin(view, "detectRejected") EXCEPT
                        !.detect = @ - 1, !.analyzing = FALSE]
    /\ FrontendUnchanged

\* analyzeRelationships settles, likewise
AnalyzeResponse(ok) ==
    /\ view.analyze > 0
    /\ view' = IF ok
               THEN loadGraphData([Begin(view, "analyzeResolved") EXCEPT !.analyze = @ - 1],
                                  "handler")
               ELSE [Begin(view, "analyzeRejected") EXCEPT
                        !.analyze = @ - 1, !.analyzing = FALSE]
    /\ FrontendUnchanged

FrontendInit ==
    /\ memories = <<>>
    /\ ClientIdle
    /\ graphs = [t \in MinStrengthValues |-> NoGraph]
    /\ scored = NoScore
    /\ response = NoResponse
    /\ cluster = NoCluster
    /\ manual = NoManual
    /\ pathq = NoPath
    /\ view = InitialView

FrontendNext ==
    \/ Mount
    \/ \E value \in TimeRanges : SetTimeRange(value)
    \/ \E value \in SliderValues : SetMinStrength(value)
    \/ Retry
    \/ ClickDetectClusters
    \/ ClickAnalyzeRelationships
    \/ \E by \in {"effect", "handler"}, outcome \in {"data", "empty", "error"} :
           GraphResponse(by, outcome)
    \/ \E ok \in BOOLEAN : DetectResponse(ok)
    \/ \E ok \in BOOLEAN : AnalyzeResponse(ok)

FrontendSpec == FrontendInit /\ [][FrontendNext]_vars

---------------------------------------------------------------------------
(* AIManager.extractKeywords.  A text is a sequence of characters, each a  *)
(* string of length one.                                                   *)

MaxWords == 16

UpperCase ==
    <<"A", "B", "C", "D", "E", "F", "G", "H", "I", "J", "K", "L", "M",
      "N", "O", "P", "Q", "R", "S", "T", "U", "V", "W", "X", "Y", "Z">>

LowerCase ==
    <<"a", "b", "c", "d", "e", "f", "g", "h", "i", "j", "k", "l", "m",
      "n", "o", "p", "q", "r", "s", "t", "u", "v", "w", "x", "y", "z">>

Digits == {"0", "1", "2", "3", "4", "5", "6", "7", "8", "9"}

\* String.prototype.toLowerCase, one character
LowerChar(c) ==
    IF \E k \in 1..Len(UpperCase) : UpperCase[k] = c
    THEN LowerCase[CHOOSE k \in 1..Len(UpperCase) : UpperCase[k] = c]
    ELSE c

toLowerCase(text) == [k \in 1..Len(text) |-> LowerChar(text[k])]

\* The class \w: letters, digits and the underscore
IsWordChar(c) ==
    \/ \E k \in 1..Len(UpperCase) : c = UpperCase[k] \/ c = LowerCase[k]
    \/ c \in Digits
    \/ c = "_"

\* The class \s
IsSpace(c) == c \in {" ", "\t", "\n"}

\* .replace(/[^\w\s]/g, ' ')
ReplacePunctuation(text) ==
    [k \in 1..Len(text) |-> IF IsWordChar(text[k]) \/ IsSpace(text[k]) THEN text[k] ELSE " "]

\* .split(/\s+/): the pieces between the runs of white space; a text that
\* starts or ends with white space has an empty first or last piece
\* The position of the first white space at or after k, Len(text) + 1 if none
NextSpace(text, k) ==
    IF \E j \in k..Len(text) : IsSpace(text[j])
    THEN CHOOSE j \in k..Len(text) :
             IsSpace(text[j]) /\ \A i \in k..(j - 1) : ~IsSpace(text[i])
    ELSE Len(text) + 1

\* The last position of the run of white space that starts at j
RunEnd(text, j) ==
    CHOOSE e \in j..Len(text) :
        /\ \A i \in j..e : IsSpace(text[i])
        /\ e = Len(text) \/ ~IsSpace(text[e + 1])

RECURSIVE SplitFrom(_, _, _)
SplitFrom(text, k, pieces) ==
    LET j == NextSpace(text, k)
    IN  IF j > Len(text) THEN Append(pieces, SubSeq(text, k, Len(text)))
        ELSE SplitFrom(text, RunEnd(text, j) + 1, Append(pieces, SubSeq(text, k, j - 1)))

Split(text) == SplitFrom(text, 1, <<>>)

stopWords ==
    {<<"t", "h", "e">>, <<"a", "n", "d">>, <<"b", "u", "t">>, <<"f", "o", "r">>,
     <<"a", "r", "e">>, <<"w", "a", "s">>, <<"w", "e", "r", "e">>,
     <<"b", "e", "e", "n">>, <<"h", "a", "v", "e">>, <<"h", "a", "s">>,
     <<"h", "a", "d">>, <<"w", "i", "l", "l">>, <<"w", "o", "u", "l", "d">>,
     <<"c", "o", "u", "l", "d">>, <<"s", "h", "o", "u", "l", "d">>,
     <<"t", "h", "i", "s">>, <<"t", "h", "a", "t">>, <<"w", "i", "t", "h">>,
     <<"f", "r", "o", "m">>, <<"t", "h", "e", "y">>, <<"t", "h", "e", "m">>,
     <<"t", "h", "e", "i", "r">>, <<"t", "h", "e", "r", "e">>,
     <<"w", "h", "e", "r", "e">>, <<"w", "h", "e", "n">>, <<"w", "h", "a", "t">>,
     <<"h", "o", "w">>, <<"w", "h", "y">>, <<"w", "h", "o">>, <<"i", "n", "t", "o">>,
     <<"v", "e", "r", "y">>, <<"j", "u", "s", "t">>, <<"o", "n", "l", "y">>,
     <<"l", "i", "k", "e">>, <<"m", "o", "r", "e">>, <<"t", "i", "m", "e">>,
     <<"t", "h", "a", "n">>, <<"s", "u", "c", "h">>, <<"s", "o", "m", "e">>,
     <<"e", "v", "e", "n">>, <<"a", "l", "s", "o">>, <<"w", "e", "l", "l">>,
     <<"m", "u", "c", "h">>, <<"m", "a", "n", "y">>}

MinLength == 3
TopKeywords == 10

\* Mutant of IsKeyword: words of the minimum length pass
IsKeywordAtLeast(word) == Len(word) >= MinLength /\ word \notin stopWords

\* word.length > 3 && !stopWords.includes(word)
IsKeyword(word) == Len(word) > MinLength /\ word \notin stopWords

\* .slice(0, 10)
Slice(list, end) == SubSeq(list, 1, IF Len(list) < end THEN Len(list) ELSE end)

extractKeywords(text) ==
    Slice(SelectSeq(Split(ReplacePunctuation(toLowerCase(text))), IsKeyword), TopKeywords)

\* The words and the separators the texts are made of
Vocabulary ==
    <<<<"h", "a", "v", "e">>, <<"h", "a", "v", "e", "n", "'", "t">>,
      <<"L", "a", "k", "e">>, <<"s", "u", "n">>,
      <<"w", "e", "l", "l", "-", "k", "n", "o", "w", "n">>, <<"H", "O", "M", "E">>,
      <<"V", "e", "r", "y">>, <<"d", "a", "y", "_", "2">>,
      <<"m", "e", "m", "o", "r", "y">>, <<"t", "r", "i", "p", "!">>>>

Separators ==
    <<<<" ">>, <<" ", " ">>, <<",", " ">>, <<"\n">>>>

\* The text of n words: the vocabulary in rotation from shift, the words
\* joined by a separator, after a leading blank if lead
RECURSIVE MakeText(_, _, _, _)
MakeText(n, shift, separator, lead) ==
    IF n = 0 THEN (IF lead THEN <<" ">> ELSE <<>>)
    ELSE MakeText(n - 1, shift, separator, lead)
         \o (IF n > 1 THEN separator ELSE <<>>)
         \o Vocabulary[((n - 1 + shift) % Len(Vocabulary)) + 1]

ServerIdle ==
    /\ memories = <<>>
    /\ graphs = [t \in MinStrengthValues |-> NoGraph]
    /\ scored = NoScore
    /\ response = NoResponse
    /\ cluster = NoCluster
    /\ manual = NoManual
    /\ pathq = NoPath
    /\ view = NoView

ServerUnchanged ==
    UNCHANGED <<memories, graphs, scored, response, cluster, manual, pathq, view>>

KeywordInit ==
    /\ ServerIdle
    /\ card = NoCard
    /\ ai = NoAI
    /\ app = NoApp
    /\ auth = NoAuth
    /\ \E n \in 0..MaxWords, shift \in 0..(Len(Vocabulary) - 1),
          k \in 1..Len(Separators), lead \in BOOLEAN :
           kw = [done |-> FALSE, none |-> FALSE,
                 text |-> MakeText(n, shift, Separators[k], lead),
                 keywords |-> <<>>]

\* One call of extractKeywords(text)
ExtractKeywords ==
    /\ ~kw.none
    /\ ~kw.done
    /\ kw' = [kw EXCEPT !.done = TRUE, !.keywords = extractKeywords(kw.text)]
    /\ ServerUnchanged
    /\ UNCHANGED <<card, ai, app, auth>>

KeywordNext == ExtractKeywords

KeywordSpec == KeywordInit /\ [][KeywordNext]_vars

---------------------------------------------------------------------------
(* MemoryCard: the props it is rendered with and the calls of onDelete *)

MaxClicks == 3

CardIds == {1, 2, 3}
CardMoods == {"", "Happy", "Tired"}
CardTags == {"", "Sad"}

\* What the card is rendered by: the memory list of App, which passes the
\* text of the item as memory and () => handleDelete(item.id) as onDelete,
\* or a caller that passes the whole memory object and a plain callback
CardCallers == {"App", "object"}

\* The argument React gives to an onClick handler
ClickEvent == [kind |-> "event", id |-> 0]

\* const displayMood = mood || tag || 'Not detected'
displayMood(mood, tag) ==
    IF mood # "" THEN mood ELSE IF tag # "" THEN tag ELSE "Not detected"

\* function MemoryCard({ memory, date, tag, mood, image, aiReaction, onDelete }):
\* <p>{memory}</p> cannot render an object, so that render throws; the
\* delete button is there when onDelete is given
MemoryCard(caller, id, mood, tag, image, onDelete) ==
    /\ card = NoCard
    /\ card' = [rendered |-> caller = "App", none |-> FALSE, threw |-> caller # "App",
                caller |-> caller, id |-> id, mood |-> displayMood(mood, tag),
                image |-> image, button |-> onDelete /\ caller = "App",
                clicks |-> 0, calls |-> <<>>, deleted |-> <<>>]
    /\ ServerUnchanged
    /\ UNCHANGED <<kw, ai, app, auth>>

\* A click on the delete button: onClick={onDelete} calls onDelete with the
\* click event; App's onDelete then calls handleDelete(item.id)
ClickDelete ==
    /\ card.rendered
    /\ card.button
    /\ card.clicks < MaxClicks
    /\ card' = [card EXCEPT !.clicks = @ + 1,
                            !.calls = Append(@, ClickEvent),
                            !.deleted = Append(@, card.id)]
    /\ ServerUnchanged
    /\ UNCHANGED <<kw, ai, app, auth>>

CardInit ==
    /\ ServerIdle
    /\ ClientIdle

CardNext ==
    \/ \E caller \in CardCallers, id \in CardIds, mood \in CardMoods, tag \in CardTags,
          image \in BOOLEAN, onDelete \in BOOLEAN :
           MemoryCard(caller, id, mood, tag, image, onDelete)
    \/ ClickDelete

CardSpec == CardInit /\ [][CardNext]_vars

---------------------------------------------------------------------------
(* AIManager: response routing.  A JavaScript value is modelled by what    *)
(* the routing looks at: "text" is a non-empty string, "" the empty        *)
(* string, "null" and "undefined" the two absent values.                   *)

AIProviders == {"auto", "local", "cloud"}

\* What the Ollama server does with a request
FetchOutcomes == {"ok", "empty", "not ok", "throws"}

NotCalled == "not called"

Truthy(value) == value = "text"

\* this.userPreferences as the constructor sets it; premiumAPIKey is TRUE
\* when a non-empty key is stored
DefaultPreferences ==
    [preferLocal |-> TRUE, useCloudFallback |-> TRUE, premiumAPIKey |-> FALSE,
     aiProvider |-> "auto"]

Preferences ==
    [preferLocal : BOOLEAN, useCloudFallback : BOOLEAN, premiumAPIKey : BOOLEAN,
     aiProvider : AIProviders]

NoResult == [source |-> "none"]

\* new AIManager(), before initializeAI has run
NewAIManager ==
    [done |-> FALSE, none |-> FALSE, initialized |-> FALSE, localAIAvailable |-> FALSE,
     userPreferences |-> DefaultPreferences, result |-> NoResult]

shouldUseLocal(manager) ==
    /\ manager.localAIAvailable
    /\ manager.userPreferences.preferLocal \/ manager.userPreferences.aiProvider = "local"

generateLocalResponse(manager, outcome) ==
    IF ~manager.localAIAvailable THEN "null"
    ELSE CASE outcome = "ok" -> "text"
           [] outcome = "empty" -> ""
           [] outcome = "not ok" -> "undefined"
           [] OTHER -> "null"

\* generatePremiumResponse returns null; generateGeminiResponse returns one
\* of its canned sentences
generateCloudResponse(manager) ==
    IF manager.userPreferences.premiumAPIKey THEN "null" ELSE "text"

\* async analyzeSentimentLocal(text): the value a caller holds, the object
\* itself after an await, a Promise without one
analyzeSentimentLocal(awaited) ==
    IF awaited THEN [kind |-> "sentiment", mood |-> "neutral", keywords |-> "array"]
    ELSE [kind |-> "promise", mood |-> "undefined", keywords |-> "undefined"]

\* generateEnhancedLocalResponse calls analyzeSentimentLocal without await
\* and ends by reading sentiment.keywords.length
generateEnhancedLocalResponse ==
    LET sentiment == analyzeSentimentLocal(FALSE)
    IN  IF sentiment.keywords = "undefined" THEN "throws" ELSE "text"

\* The value generateResponse resolves to, with what each step produced
generateResponse(manager, outcome) ==
    LET uses_local == shouldUseLocal(manager)
        local == IF uses_local THEN generateLocalResponse(manager, outcome) ELSE NotCalled
        uses_cloud == ~Truthy(local) /\ manager.userPreferences.useCloudFallback
        cloud == IF uses_cloud THEN generateCloudResponse(manager) ELSE NotCalled
        enhanced == IF Truthy(local) \/ Truthy(cloud) THEN NotCalled
                    ELSE generateEnhancedLocalResponse
        source == IF Truthy(local) THEN "local"
                  ELSE IF Truthy(cloud) THEN "cloud"
                  ELSE IF enhanced = "throws" THEN "fallback"
                  ELSE "enhanced-local"
    IN  [source |-> source, cost |-> 0, rejected |-> FALSE,
         aiProvider |-> manager.userPreferences.aiProvider,
         localAIAvailable |-> manager.localAIAvailable,
         preferLocal |-> manager.userPreferences.preferLocal,
         useCloudFallback |-> manager.userPreferences.useCloudFallback,
         premiumAPIKey |-> manager.userPreferences.premiumAPIKey,
         local |-> local, cloud |-> cloud, enhanced |-> enhanced]

AIInit ==
    /\ ServerIdle
    /\ kw = NoKeywords
    /\ card = NoCard
    /\ app = NoApp
    /\ auth = NoAuth
    /\ ai = NewAIManager

\* initializeAI: checkLocalAI, then loadUserPreferences with what an
\* earlier session saved, if anything
InitializeAI(outcome, saved) ==
    /\ ~ai.initialized
    /\ ai' = [ai EXCEPT !.initialized = TRUE,
                        !.localAIAvailable =
                            CASE outcome \in {"ok", "empty"} -> TRUE
                              [] outcome = "throws" -> FALSE
                              [] OTHER -> @,
                        !.userPreferences = saved]
    /\ ServerUnchanged
    /\ UNCHANGED <<kw, card, app, auth>>

\* AISettings.handlePreferenceChange -> updatePreferences
UpdatePreferences(preferences) ==
    /\ preferences # ai.userPreferences
    /\ \/ preferences = [ai.userPreferences EXCEPT !.aiProvider = preferences.aiProvider]
       \/ preferences = [ai.userPreferences EXCEPT !.preferLocal = preferences.preferLocal]
       \/ preferences = [ai.userPreferences EXCEPT !.useCloudFallback = preferences.useCloudFallback]
       \/ preferences = [ai.userPreferences EXCEPT !.premiumAPIKey = preferences.premiumAPIKey]
    /\ ai' = [ai EXCEPT !.userPreferences = preferences]
    /\ ServerUnchanged
    /\ UNCHANGED <<kw, card, app, auth>>

\* One call of generateResponse(prompt, context)
GenerateResponse(outcome) ==
    /\ ai' = [ai EXCEPT !.done = TRUE, !.result = generateResponse(ai, outcome)]
    /\ ServerUnchanged
    /\ UNCHANGED <<kw, card, app, auth>>

AINext ==
    \/ \E outcome \in FetchOutcomes, saved \in Preferences : InitializeAI(outcome, saved)
    \/ \E preferences \in Preferences : UpdatePreferences(preferences)
    \/ \E outcome \in FetchOutcomes : GenerateResponse(outcome)

AISpec == AIInit /\ [][AINext]_vars

---------------------------------------------------------------------------
(* MemoryGraphView with the identity of its requests: every request in     *)
(* flight carries the timeRange and minStrength of the render whose        *)
(* closure sent it, and graphData those of the request it answers.         *)

MaxIssued == 4

RaceTimeRanges == {"week", "month"}
RaceSliderValues == {300, 500}

NoData == [seq |-> 0, timeRange |-> "none", minStrength |-> 0, nodes |-> "null"]

\* The component after useState; pending is the set of requests in flight,
\* issued the number of requests sent so far, latest the number of the
\* graph request sent last
InitialGraphView ==
    [mounted |-> FALSE, timeRange |-> "month", minStrength |-> DefaultMinStrength,
     loading |-> TRUE, error |-> FALSE, analyzing |-> FALSE, graphData |-> NoData,
     pending |-> {}, issued |-> 0, latest |-> 0]

\* const hasData = graphData && graphData.nodes && graphData.nodes.length > 0
hasData(v) == v.graphData.nodes = "data"

GraphPending(v) == {request \in v.pending : request.kind = "graph"}

\* loadGraphData of the render with the given timeRange and minStrength, up
\* to its await; by is "effect" for the effect and Retry, "handler" for a
\* handler that awaits it
getMemoryGraphRequest(v, by, timeRange, minStrength) ==
    [v EXCEPT !.loading = TRUE, !.error = FALSE,
              !.issued = @ + 1, !.latest = v.issued + 1,
              !.pending = @ \union {[kind |-> "graph", by |-> by, seq |-> v.issued + 1,
                                      timeRange |-> timeRange,
                                      minStrength |-> minStrength]}]

\* A handler up to its await: setAnalyzing(true) and the request; the
\* handler belongs to the render in which the button was clicked
HandlerRequest(v, kind) ==
    [v EXCEPT !.analyzing = TRUE, !.issued = @ + 1,
              !.pending = @ \union {[kind |-> kind, by |-> "handler", seq |-> v.issued + 1,
                                      timeRange |-> v.timeRange,
                                      minStrength |-> v.minStrength]}]

RaceControlsShown == view.mounted /\ ~view.loading /\ ~view.error

RaceUnchanged ==
    UNCHANGED <<memories, graphs, scored, response, cluster, manual, pathq, kw, card, ai, app, auth>>

MountView ==
    /\ ~view.mounted
    /\ view' = getMemoryGraphRequest([view EXCEPT !.mounted = TRUE], "effect",
                                      view.timeRange, view.minStrength)
    /\ RaceUnchanged

SelectTimeRange(value) ==
    /\ RaceControlsShown
    /\ view.issued < MaxIssued
    /\ value # view.timeRange
    /\ view' = getMemoryGraphRequest([view EXCEPT !.timeRange = value], "effect",
                                      value, view.minStrength)
    /\ RaceUnchanged

SlideMinStrength(value) ==
    /\ RaceControlsShown
    /\ view.issued < MaxIssued
    /\ value # view.minStrength
    /\ view' = getMemoryGraphRequest([view EXCEPT !.minStrength = value], "effect",
                                      view.timeRange, value)
    /\ RaceUnchanged

RetryLoad ==
    /\ view.mounted /\ ~view.loading /\ view.error
    /\ view.issued < MaxIssued
    /\ view' = getMemoryGraphRequest(view, "effect", view.timeRange, view.minStrength)
    /\ RaceUnchanged

\* disabled={analyzing} on the button of the controls, no disabled on the
\* button of the empty view
AnalyzeClicked ==
    /\ RaceControlsShown
    /\ view.issued < MaxIssued
    /\ ~view.analyzing \/ ~hasData(view)
    /\ view' = HandlerRequest(view, "analyze")
    /\ RaceUnchanged

\* disabled={analyzing || !hasData}
DetectClicked ==
    /\ RaceControlsShown
    /\ view.issued < MaxIssued
    /\ ~view.analyzing
    /\ hasData(view)
    /\ view' = HandlerRequest(view, "detect")
    /\ RaceUnchanged

\* getMemoryGraph settles: setGraphData(data) or setError(...), then
\* setLoading(false); a handler that awaited loadGraphData reaches its
\* finally
GraphSettled(request, outcome) ==
    /\ request \in GraphPending(view)
    /\ view' = [view EXCEPT
                   !.pending = @ \ {request},
                   !.loading = FALSE,
                   !.error = IF outcome = "error" THEN TRUE ELSE @,
                   !.graphData = IF outcome = "error" THEN @
                                 ELSE [seq |-> request.seq, timeRange |-> request.timeRange,
                                       minStrength |-> request.minStrength,
                                       nodes |-> outcome],
                   !.analyzing = IF request.by = "handler" THEN FALSE ELSE @]
    /\ RaceUnchanged

\* analyzeRelationships or detectClusters settles: on success the handler
\* calls the loadGraphData of its own render; that reload is sent even
\* when the bound on requests is reached, since the handler cannot skip it
HandlerSettled(request, ok) ==
    /\ request \in view.pending
    /\ request.kind \in {"analyze", "detect"}
    /\ view' = IF ok
               THEN getMemoryGraphRequest([view EXCEPT !.pending = @ \ {request}], "handler",
                                          request.timeRange, request.minStrength)
               ELSE [view EXCEPT !.pending = @ \ {request}, !.analyzing = FALSE]
    /\ RaceUnchanged

RaceInit ==
    /\ memories = <<>>
    /\ ClientIdle
    /\ graphs = [t \in MinStrengthValues |-> NoGraph]
    /\ scored = NoScore
    /\ response = NoResponse
    /\ cluster = NoCluster
    /\ manual = NoManual
    /\ pathq = NoPath
    /\ view = InitialGraphView

RaceNext ==
    \/ MountView
    \/ \E value \in RaceTimeRanges : SelectTimeRange(value)
    \/ \E value \in RaceSliderValues : SlideMinStrength(value)
    \/ RetryLoad
    \/ AnalyzeClicked
    \/ DetectClicked
    \/ \E request \in view.pending, outcome \in {"data", "empty", "error"} :
           GraphSettled(request, outcome)
    \/ \E request \in view.pending, ok \in BOOLEAN : HandlerSettled(request, ok)

RaceSpec == RaceInit /\ [][RaceNext]_vars

---------------------------------------------------------------------------
(* App: the memories list, the draft and the save and delete handlers.     *)
(* A memory is its id; backend is the list the server holds, newest first. *)

MaxSaves == 2
MaxDeletes == 2

Drafts == {"", " ", "walk"}
InitialBackends == {<<>>, <<1>>, <<2, 1>>}
FirstNewId == 3

\* memory.trim() === ''
Blank(text) == text \in {"", " "}

Elements(list) == {list[k] : k \in 1..Len(list)}

\* memories.filter((memory) => memory.id !== memoryId)
Without(list, memoryId) == SelectSeq(list, LAMBDA id : id # memoryId)

\* What the last step was, with the state it started from; steps other
\* than the ends of handleSave and handleDelete are not told apart
NoStep ==
    [step |-> "other", memories |-> <<>>, draft |-> "", aiGenerating |-> FALSE,
     requests |-> 0, returned |-> 0]

Step(step, returned) ==
    [step |-> step, memories |-> app.memories, draft |-> app.draft,
     aiGenerating |-> app.aiGenerating,
     requests |-> Cardinality(app.saves) + Cardinality(app.deletes),
     returned |-> returned]

\* App after its first render: memories [], memory '', aiGenerating false,
\* getMemories in flight.  started: a save or a delete has been started;
\* lateFetch: getMemories settled after that
NewApp(backend) ==
    [mounted |-> TRUE, none |-> FALSE, memories |-> <<>>, draft |-> "",
     aiGenerating |-> FALSE, fetch |-> "pending", started |-> FALSE, lateFetch |-> FALSE,
     backend |-> backend, saves |-> {}, deletes |-> {}, created |-> 0,
     saved |-> {}, deleted |-> {}, last |-> NoStep]

AppInit ==
    /\ ServerIdle
    /\ kw = NoKeywords
    /\ card = NoCard
    /\ ai = NoAI
    /\ auth = NoAuth
    /\ \E backend \in InitialBackends : app = NewApp(backend)

AppUnchanged ==
    /\ ServerUnchanged
    /\ UNCHANGED <<kw, card, ai, auth>>

\* fetchMemories after its await
FetchSettled(ok) ==
    /\ app.fetch = "pending"
    /\ app' = [app EXCEPT !.fetch = IF ok THEN "done" ELSE "failed",
                          !.memories = IF ok THEN app.backend ELSE @,
                          !.lateFetch = app.started,
                          !.last = NoStep]
    /\ AppUnchanged

\* onChange of the textarea
TypeDraft(text) ==
    /\ text # app.draft
    /\ app' = [app EXCEPT !.draft = text, !.last = NoStep]
    /\ AppUnchanged

\* The Save button, disabled={!memory.trim() || aiGenerating}: handleSave
\* up to its first await; the handler keeps the memory and memories of the
\* render it was clicked in
ClickSave ==
    /\ ~Blank(app.draft)
    /\ ~app.aiGenerating
    /\ app.created + Cardinality(app.saves) < MaxSaves
    /\ app' = [app EXCEPT !.aiGenerating = TRUE, !.started = TRUE,
                          !.saves = @ \union {[text |-> app.draft, memories |-> app.memories]},
                          !.last = NoStep]
    /\ AppUnchanged

\* handleSave called with an empty or blank memory: if (memory.trim() === '') return
SaveBlank ==
    /\ Blank(app.draft)
    /\ app' = [app EXCEPT !.last = Step("saveBlank", 0)]
    /\ AppUnchanged

\* createMemory settles: handleSave after its await
SaveSettled(save, ok) ==
    /\ save \in app.saves
    /\ LET id == FirstNewId + app.created
       IN  app' = IF ok
                  THEN [app EXCEPT !.saves = @ \ {save},
                                   !.backend = <<id>> \o @,
                                   !.created = @ + 1,
                                   !.saved = @ \union {id},
                                   !.memories = <<id>> \o save.memories,
                                   !.draft = "",
                                   !.aiGenerating = FALSE,
                                   !.last = Step("saveSucceeded", id)]
                  ELSE [app EXCEPT !.saves = @ \ {save},
                                   !.aiGenerating = FALSE,
                                   !.last = Step("saveFailed", 0)]
    /\ AppUnchanged

\* The Delete button of a card: handleDelete up to its await, with the
\* memories of the render it was clicked in
ClickDeleteCard(memoryId) ==
    /\ memoryId \in Elements(app.memories)
    /\ Cardinality(app.deletes) < MaxDeletes
    /\ app' = [app EXCEPT !.started = TRUE,
                          !.deletes = @ \union {[id |-> memoryId, memories |-> app.memories]},
                          !.last = NoStep]
    /\ AppUnchanged

\* deleteMemory settles: it succeeds only for a memory the server holds
DeleteSettled(delete, ok) ==
    /\ delete \in app.deletes
    /\ ok => delete.id \in Elements(app.backend)
    /\ app' = IF ok
              THEN [app EXCEPT !.deletes = @ \ {delete},
                               !.backend = Without(@, delete.id),
                               !.deleted = @ \union {delete.id},
                               !.memories = Without(delete.memories, delete.id),
                               !.last = Step("deleteSucceeded", delete.id)]
              ELSE [app EXCEPT !.deletes = @ \ {delete},
                               !.last = Step("deleteFailed", delete.id)]
    /\ AppUnchanged

AppNext ==
    \/ \E ok \in BOOLEAN : FetchSettled(ok)
    \/ \E text \in Drafts : TypeDraft(text)
    \/ ClickSave
    \/ SaveBlank
    \/ \E save \in app.saves, ok \in BOOLEAN : SaveSettled(save, ok)
    \/ \E memoryId \in Elements(app.memories) : ClickDeleteCard(memoryId)
    \/ \E delete \in app.deletes, ok \in BOOLEAN : DeleteSettled(delete, ok)

AppSpec == AppInit /\ [][AppNext]_vars

---------------------------------------------------------------------------
(* The auth API: localStorage, the two interceptors of authApi, logout and *)
(* isAuthenticated.  Tokens are written by the caller of login, which is   *)
(* not part of these sources, so the stored session is an input.           *)

MaxAuthRequests == 3

Unauthorized == 401

\* localStorage.getItem of a key that is not stored
NoItem == "null"

Tokens == {"jwt1", "jwt2"}
StoredUsers == {"ann"}

\* Statuses of a response; 0 stands for an error without a response
Statuses == {200, Unauthorized, 500, 0}

AuthEndpoints == {"/auth/login", "/auth/register"}

NoHeader == [scheme |-> "none", token |-> NoItem]

\* if (token), !!token: the key is stored and its value is not empty
TokenTruthy(token) == token \notin {NoItem, ""}

\* The request interceptor: Authorization = `Bearer ${token}` if (token)
RequestInterceptor(storage) ==
    IF TokenTruthy(storage.token) THEN [scheme |-> "Bearer", token |-> storage.token]
    ELSE NoHeader

\* Mutant of ClearSession: only the token is removed
ClearToken(storage) == [storage EXCEPT !.token = NoItem]

\* localStorage.removeItem('token'); localStorage.removeItem('user')
ClearSession(storage) == [storage EXCEPT !.token = NoItem, !.user = NoItem]

\* The response interceptor: what it leaves in localStorage
ResponseInterceptor(storage, status) ==
    IF status = Unauthorized THEN ClearSession(storage) ELSE storage

isAuthenticated(storage) == TokenTruthy(storage.token)

NoCall == [step |-> "none", status |-> 200, rejected |-> FALSE, token |-> NoItem]

AuthInit ==
    /\ ServerIdle
    /\ kw = NoKeywords
    /\ card = NoCard
    /\ ai = NoAI
    /\ app = NoApp
    /\ \E token \in Tokens \union {NoItem}, user \in StoredUsers \union {NoItem} :
           auth = [loaded |-> TRUE, none |-> FALSE,
                   storage |-> [token |-> token, user |-> user],
                   location |-> "/", pending |-> {}, sent |-> 0, last |-> NoCall]

AuthUnchanged ==
    /\ ServerUnchanged
    /\ UNCHANGED <<kw, card, ai, app>>

\* authApi.post(endpoint, ...) up to its await (login, register)
SendRequest(endpoint) ==
    /\ auth.sent < MaxAuthRequests
    /\ auth' = [auth EXCEPT
                   !.sent = @ + 1,
                   !.pending = @ \union {[id |-> auth.sent + 1, endpoint |-> endpoint,
                                           stored |-> auth.storage.token,
                                           authorization |-> RequestInterceptor(auth.storage)]},
                   !.last = NoCall]
    /\ AuthUnchanged

\* logout() up to its await
CallLogout ==
    /\ auth.sent < MaxAuthRequests
    /\ auth' = [auth EXCEPT
                   !.sent = @ + 1,
                   !.pending = @ \union {[id |-> auth.sent + 1, endpoint |-> "/auth/logout",
                                           stored |-> auth.storage.token,
                                           authorization |-> RequestInterceptor(auth.storage)]},
                   !.last = NoCall]
    /\ AuthUnchanged

\* The response to a login or register request: the response interceptor,
\* then the caller gets the data or the rejection
ResponseArrives(request, status) ==
    /\ request \in auth.pending
    /\ request.endpoint \in AuthEndpoints
    /\ auth' = [auth EXCEPT
                   !.pending = @ \ {request},
                   !.storage = ResponseInterceptor(@, status),
                   !.location = IF status = Unauthorized THEN "/login" ELSE @,
                   !.last = [step |-> "response", status |-> status,
                             rejected |-> status # 200, token |-> auth.storage.token]]
    /\ AuthUnchanged

\* The response to the logout request: the response interceptor, the catch
\* of logout, then its finally
LogoutCompletes(request, status) ==
    /\ request \in auth.pending
    /\ request.endpoint = "/auth/logout"
    /\ auth' = [auth EXCEPT
                   !.pending = @ \ {request},
                   !.storage = ClearSession(ResponseInterceptor(@, status)),
                   !.location = "/login",
                   !.last = [step |-> "logout", status |-> status,
                             rejected |-> FALSE, token |-> auth.storage.token]]
    /\ AuthUnchanged

AuthNext ==
    \/ \E endpoint \in AuthEndpoints : SendRequest(endpoint)
    \/ CallLogout
    \/ \E request \in auth.pending, status \in Statuses : ResponseArrives(request, status)
    \/ \E request \in auth.pending, status \in Statuses : LogoutCompletes(request, status)

AuthSpec == AuthInit /\ [][AuthNext]_vars

---------------------------------------------------------------------------
(* The scorer alone, on every pair of memories of the input domains *)

PairToScore(text1, at1, mood1, text2, at2, mood2) ==
    [mem1 |-> [id |-> 1, text |-> text1, created_at |-> at1, mood |-> mood1],
     mem2 |-> [id |-> 2, text |-> text2, created_at |-> at2, mood |-> mood2],
     similarity |-> SimilarityOfTexts[text1][text2],
     done |-> FALSE, none |-> FALSE]

ScorerInit ==
    /\ memories = <<>>
    /\ ClientIdle
    /\ graphs = [t \in MinStrengthValues |-> NoGraph]
    /\ response = NoResponse
    /\ cluster = NoCluster
    /\ manual = NoManual
    /\ pathq = NoPath
    /\ view = NoView
    /\ \E text1 \in Texts, text2 \in Texts,
          at1 \in CreatedAtValues, at2 \in CreatedAtValues,
          mood1 \in Moods, mood2 \in Moods :
           scored = PairToScore(text1, at1, mood1, text2, at2, mood2)

\* One call of _analyze_relationship(mem1, mem2, similarity)
AnalyzeRelationship ==
    /\ ~scored.none /\ ~scored.done
    /\ scored' = [mem1 |-> scored.mem1, mem2 |-> scored.mem2,
                  similarity |-> scored.similarity,
                  relationship |->
                      analyze_relationship(scored.mem1, scored.mem2, scored.similarity),
                  done |-> TRUE, none |-> FALSE]
    /\ UNCHANGED <<memories, graphs, response, cluster, manual, pathq, view, kw, card, ai, app, auth>>

ScorerNext == AnalyzeRelationship

ScorerSpec == ScorerInit /\ [][ScorerNext]_vars

---------------------------------------------------------------------------
(* Properties of the scorer (checked under ScorerSpec) *)

ReasonSet(relationship) ==
    {relationship.reasons[k] : k \in 1..Len(relationship.reasons)}

SemanticFires == scored.similarity > SimilarityThreshold
TemporalFires == time_diff(scored.mem1, scored.mem2) < WeekDays
EntityFires == entity_overlap(scored.mem1, scored.mem2) > 0
MoodFires == scored.mem1.mood = scored.mem2.mood

\* The same pair scored with the arguments exchanged
ScoredReversed ==
    analyze_relationship(scored.mem2, scored.mem1,
        SimilarityOfTexts[scored.mem2.text][scored.mem1.text])

\* C1: scoring a pair in either argument order gives the same strength, the
\* same set of reasons and the same type, for every pair of creation
\* timestamps, whole days apart or not.
C1_ScoreSymmetric ==
    scored.done =>
        /\ scored.relationship.strength = ScoredReversed.strength
        /\ ReasonSet(scored.relationship) = ReasonSet(ScoredReversed)
        /\ scored.relationship.type = ScoredReversed.type

\* C4: the type follows the precedence entity_based > temporal > semantic:
\* entity_based when the entity factor fires, otherwise temporal when the
\* temporal factor fires, otherwise semantic when the semantic factor fires;
\* so a relationship with one of these three factors fired has one of these
\* three types.
C4_TypePrecedence ==
    scored.done =>
        /\ EntityFires => scored.relationship.type = "entity_based"
        /\ ~EntityFires /\ TemporalFires => scored.relationship.type = "temporal"
        /\ ~EntityFires /\ ~TemporalFires /\ SemanticFires =>
               scored.relationship.type = "semantic"
        /\ EntityFires \/ TemporalFires \/ SemanticFires =>
               scored.relationship.type \in {"semantic", "temporal", "entity_based"}

\* The elapsed time between the two creation timestamps, in half days
HalfDaysApart == Abs(scored.mem1.created_at - scored.mem2.created_at)

\* C5: the strength is exactly the unclamped sum of similarity * 0.4 when the
\* similarity exceeds 0.7, 0.3 when the creation dates are fewer than 7 days
\* apart, 0.1 per shared entity, and 0.2 when the moods match.
C5_StrengthIsSumOfContributions ==
    scored.done =>
        scored.relationship.strength =
              (IF scored.similarity > SimilarityThreshold
               THEN scored.similarity * SemanticWeight ELSE 0)
            + (IF HalfDaysApart < 2 * WeekDays THEN TemporalWeight ELSE 0)
            + entity_overlap(scored.mem1, scored.mem2) * EntityWeight
            + (IF scored.mem1.mood = scored.mem2.mood THEN MoodWeight ELSE 0)

StrengthBeforeMood ==
    EntityOverlap(
        TemporalProximity(
            SemanticSimilarity(NewRelationship(scored.mem1, scored.mem2),
                               scored.similarity),
            scored.mem1, scored.mem2),
        scored.mem1, scored.mem2).strength

BothHaveSameMoodLabel ==
    /\ scored.mem1.mood # NoMood
    /\ scored.mem2.mood # NoMood
    /\ scored.mem1.mood = scored.mem2.mood

\* C7: the mood factor contributes 0.2 and the reason same_mood if and only
\* if both memories carry a mood label and the labels are equal; two memories
\* without a mood get neither.
C7_MoodFactorNeedsLabels ==
    scored.done =>
        /\ "same_mood" \in ReasonSet(scored.relationship) <=> BothHaveSameMoodLabel
        /\ scored.relationship.strength - StrengthBeforeMood =
               (IF BothHaveSameMoodLabel THEN MoodWeight ELSE 0)

\* C8: the reason list holds exactly one tag per factor that fired, so it is
\* non-empty exactly when the strength is positive; when no factor fires the
\* strength is 0, the list is empty and the pair is not retained at the
\* default minStrength.
C8_ReasonsMatchFactors ==
    scored.done =>
        LET r == scored.relationship
        IN  /\ "semantic_similarity" \in ReasonSet(r) <=> SemanticFires
            /\ "temporal_proximity" \in ReasonSet(r) <=> TemporalFires
            /\ "shared_entities" \in ReasonSet(r) <=> EntityFires
            /\ "same_mood" \in ReasonSet(r) <=> MoodFires
            /\ ReasonSet(r) \subseteq {"semantic_similarity", "temporal_proximity",
                                        "shared_entities", "same_mood"}
            /\ Len(r.reasons) = Cardinality(ReasonSet(r))
            /\ r.reasons # <<>> <=> r.strength > 0
            /\ ~(SemanticFires \/ TemporalFires \/ EntityFires \/ MoodFires) =>
                   /\ r.strength = 0
                   /\ r.reasons = <<>>
                   /\ ~(Qualifies(r) /\ MeetsMinStrength(r, DefaultMinStrength))

\* Two memories 60 days apart, dissimilar texts, different moods, no shared
\* entity: scored with strength 0 and no reason.
C8_Witness ==
    /\ scored.done
    /\ HalfDaysApart = 120
    /\ scored.similarity <= SimilarityThreshold
    /\ scored.mem1.mood = "happy" /\ scored.mem2.mood = "sad"
    /\ entity_overlap(scored.mem1, scored.mem2) = 0
    /\ scored.relationship.strength = 0
    /\ scored.relationship.reasons = <<>>

---------------------------------------------------------------------------
(* Properties of the graph endpoint (checked under Spec) *)

Returned == {t \in MinStrengthValues : graphs[t].status = "ok"}

EdgeSet(graph) == {graph.edges[k] : k \in 1..Len(graph.edges)}

Endpoints(relationship) == {relationship.source, relationship.target}

\* The strength the scorer gives the memories at positions i and j
PairStrength(i, j) ==
    analyze_relationship(memories[i], memories[j],
                         similarity_matrix(memories, i, j)).strength

\* C2: a pair of memories is an edge of the returned graph if and only if its
\* scored strength is >= minStrength.
C2_EdgeIffStrengthAtLeastMin ==
    \A t \in Returned :
        \A i \in 1..Len(memories), j \in 1..Len(memories) :
            i < j =>
                ((\E e \in EdgeSet(graphs[t]) :
                      Endpoints(e) = {memories[i].id, memories[j].id})
                 <=> PairStrength(i, j) >= t)

CallSet(graph) == {graph.calls[k] : k \in 1..Len(graph.calls)}

\* C9: for n memories with distinct ids every unordered pair of distinct
\* memories is scored exactly once, n(n-1)/2 calls in all: no memory against
\* itself, no pair twice; so the edge list has no self-loop and at most one
\* edge per unordered pair.
C9_EachPairScoredOnce ==
    \A t \in Returned :
        LET g == graphs[t]
            n == Len(memories)
        IN  /\ 2 * Len(g.calls) = n * (n - 1)
            /\ \A c \in CallSet(g) : c[1] # c[2]
            /\ \A k1 \in 1..Len(g.calls), k2 \in 1..Len(g.calls) :
                   k1 # k2 => {g.calls[k1][1], g.calls[k1][2]}
                                  # {g.calls[k2][1], g.calls[k2][2]}
            /\ \A i \in 1..n, j \in 1..n :
                   i # j => \E c \in CallSet(g) :
                                {c[1], c[2]} = {memories[i].id, memories[j].id}
            /\ \A e \in EdgeSet(g) : e.source # e.target
            /\ \A k1 \in 1..Len(g.edges), k2 \in 1..Len(g.edges) :
                   k1 # k2 => Endpoints(g.edges[k1]) # Endpoints(g.edges[k2])

\* A graph of three memories: three scorer calls, at least two edges.
C9_Witness ==
    \E t \in Returned :
        /\ Len(memories) = 3
        /\ Len(graphs[t].calls) = 3
        /\ Len(graphs[t].edges) >= 2

\* C10: stats.total_memories is the number of nodes, stats.total_connections
\* the number of edges, and stats.avg_connection_strength the arithmetic mean
\* of the edges' strengths, or 0 without edges.
C10_StatsMatchGraph ==
    \A t \in Returned :
        LET g == graphs[t]
            avg == g.stats.avg_connection_strength
        IN  /\ g.stats.total_memories = Len(g.nodes)
            /\ g.stats.total_connections = Len(g.edges)
            /\ avg.den > 0
            /\ IF g.edges = <<>>
               THEN avg.num = 0
               ELSE avg.num * Len(g.edges) = SumStrength(g.edges) * avg.den

\* A graph with edges of different strengths and fewer edges than nodes.
C10_Witness ==
    \E t \in Returned :
        /\ Len(graphs[t].edges) = 2
        /\ Len(graphs[t].nodes) = 3
        /\ graphs[t].edges[1].strength # graphs[t].edges[2].strength

---------------------------------------------------------------------------
(* Properties of the endpoints under every kind of request (QuerySpec) *)

ValidRequest ==
    /\ response.min_strength \in 0..1000
    /\ response.time_range \in {"all"} \cup ValidTimeRanges

\* The memories a request's time range selects
Selected ==
    IF response.time_range \in ValidTimeRanges
    THEN filter_by_time_range(memories, response.time_range)
    ELSE memories

\* C11: an input of zero memories or of a single memory never produces an
\* error: the graph has no relationships, the connection count and the mean
\* strength are 0, and cluster detection on it returns zero clusters.
C11_NoErrorOnEmptyOrSingle ==
    /\ (response.kind = "graph" /\ ValidRequest /\ response.failing = 0
           /\ Len(Selected) <= 1)
        => /\ response.graph.status = "ok"
           /\ response.graph.edges = <<>>
           /\ response.graph.stats.total_connections = 0
           /\ response.graph.stats.avg_connection_strength.num = 0
    /\ (response.kind = "clusters" /\ Len(response.graph.nodes) <= 1)
        => response.clusters = <<>>

\* The relationships of a graph as undirected edges
UndirectedEdges(graph) ==
    {[ends |-> Endpoints(graph.edges[k]),
      strength |-> graph.edges[k].strength,
      type |-> graph.edges[k].type,
      reasons |-> graph.edges[k].reasons] : k \in 1..Len(graph.edges)}

\* C12: two runs of the graph build on an identical memory set (same ids,
\* texts, timestamps, moods) and the same minStrength return identical
\* relationship sets, with identical strength, type and reasons for every
\* edge: the run on the documents in the order the database returned them
\* agrees with the run on the same documents in their order of creation.
C12_SameSetSameRelationships ==
    (response.kind = "graph" /\ response.graph.status = "ok")
    => UndirectedEdges(response.graph)
         = UndirectedEdges(memory_graph(memories, response.time_range,
                                        response.min_strength, response.failing))

\* C19: a graph query whose minStrength lies outside [0,1] or whose time
\* range is not one of week, month, year, all is rejected with an error
\* before any memory is fetched or any pair is scored; no graph is returned.
C19_InvalidQueryRejected ==
    (response.kind = "graph" /\ ~ValidRequest)
    => /\ response.graph.status = "error"
       /\ ~response.graph.fetched
       /\ response.graph.calls = <<>>

\* The relationships of a graph that do not involve the memory id
EdgesWithout(graph, id) ==
    {e \in UndirectedEdges(graph) : id \notin e.ends}

\* C20: if feature extraction fails for one memory of the input set, the
\* graph computation still completes, and every pair not involving that
\* memory receives the same strength, type and reasons as in a run where no
\* extraction failed.
C20_ExtractionFailureIsolated ==
    (response.kind = "graph" /\ ValidRequest
       /\ response.failing \in NodeIds(Selected))
    => LET clean == memory_graph(Reorder(memories, response.order),
                                 response.time_range, response.min_strength, 0)
       IN  /\ response.graph.status = "ok"
           /\ clean.status = "ok"
           /\ EdgesWithout(response.graph, response.failing)
                = EdgesWithout(clean, response.failing)

---------------------------------------------------------------------------
(* Properties of cluster detection (checked under ClusterSpec) *)

\* The ids of the members of a cluster, in the order of its member list
MemberIds(c) == [k \in 1..Len(c.memories) |-> c.memories[k].id]

MemberSet(c) == {c.memories[k].id : k \in 1..Len(c.memories)}

\* The memories that are an endpoint of a relationship
Connected(relationships) ==
    UNION {Endpoints(relationships[k]) : k \in 1..Len(relationships)}

\* C13: cluster detection never places a memory that has no qualifying edge
\* into any cluster and never returns a singleton cluster for an isolated
\* node; for a graph with nodes but no relationships it returns an empty
\* cluster list.
C13_IsolatedNotClustered ==
    cluster.done
    => /\ \A i \in 1..Len(cluster.clusters) :
              /\ cluster.clusters[i].size >= 2
              /\ MemberSet(cluster.clusters[i]) \subseteq Connected(cluster.relationships)
       /\ cluster.relationships = <<>> => cluster.clusters = <<>>

\* C14: each cluster's member list has no duplicate ids, every member id is
\* the id of a node of the graph the clusters were computed from, and no
\* memory id is a member of two different clusters.
C14_ClustersDisjointMembersOfGraph ==
    cluster.done
    => /\ \A i \in 1..Len(cluster.clusters) :
              LET ids == MemberIds(cluster.clusters[i])
              IN  /\ \A k \in 1..Len(ids), l \in 1..Len(ids) : ids[k] = ids[l] => k = l
                  /\ \A k \in 1..Len(ids) :
                         ids[k] \in GraphNodes(cluster.relationships, cluster.memories)
       /\ \A i \in 1..Len(cluster.clusters), j \in 1..Len(cluster.clusters) :
              i # j => MemberSet(cluster.clusters[i]) \cap MemberSet(cluster.clusters[j]) = {}

\* Two clusters, one of them with three members, of a graph of five memories.
C14_Witness ==
    /\ cluster.done
    /\ Len(cluster.memories) = 5
    /\ Len(cluster.clusters) = 2
    /\ \E i \in 1..2 : Len(cluster.clusters[i].memories) = 3

\* The theme strings in ascending order
ThemeOrder == <<"", "anna", "hiking", "party", "sam", "trip", "work">>

ThemeRank(theme) == CHOOSE k \in 1..Len(ThemeOrder) : ThemeOrder[k] = theme

\* C15: the list returned by cluster detection is sorted by member count in
\* descending order, and clusters with equal member count appear in
\* ascending order of their theme string, whatever order the community
\* detection produced the communities in.
C15_ClustersSortedBySizeThenTheme ==
    cluster.done
    => \A i \in 1..Len(cluster.clusters), j \in 1..Len(cluster.clusters) :
           i < j
           => \/ cluster.clusters[i].size > cluster.clusters[j].size
              \/ /\ cluster.clusters[i].size = cluster.clusters[j].size
                 /\ ThemeRank(cluster.clusters[i].theme)
                      <= ThemeRank(cluster.clusters[j].theme)

---------------------------------------------------------------------------
(* Properties of manual relationships (checked under ManualSpec) *)

\* C17: after a manual relationship is created between two memories with a
\* given strength, every later graph query that includes both memories
\* contains an edge between them of type "manual" with exactly that
\* strength, whatever the pair's automatic score and the minStrength.
C17_ManualEdgeInEveryLaterGraph ==
    (response.kind = "graph" /\ response.graph.status = "ok")
    => \A r \in manual.stored :
           {r.source_memory_id, r.target_memory_id} \subseteq NodeIds(response.graph.nodes)
           => \E e \in EdgeSet(response.graph) :
                  /\ Endpoints(e) = {r.source_memory_id, r.target_memory_id}
                  /\ e.type = "manual"
                  /\ e.strength = r.strength

---------------------------------------------------------------------------
(* Properties of the path query (checked under PathSpec) *)

\* The sequences of distinct nodes from the last node of path to target
\* along existing edges, each prefixed by path
RECURSIVE PathsFrom(_, _, _, _)
PathsFrom(relationships, nodes, path, target) ==
    IF path[Len(path)] = target THEN {path}
    ELSE UNION {PathsFrom(relationships, nodes, Append(path, v), target) :
                   v \in {w \in nodes :
                             /\ Adjacent(relationships, path[Len(path)], w)
                             /\ \A k \in 1..Len(path) : path[k] # w}}

\* The strength of the edge between two adjacent nodes
StrengthBetween(relationships, a, b) ==
    LET k == CHOOSE l \in 1..Len(relationships) : Endpoints(relationships[l]) = {a, b}
    IN  relationships[k].strength

\* The total cost of a path, every edge costing 1 - strength
RECURSIVE TotalCost(_, _)
TotalCost(relationships, path) ==
    IF Len(path) <= 1 THEN 0
    ELSE (1000 - StrengthBetween(relationships, path[1], path[2]))
         + TotalCost(relationships, Tail(path))

---------------------------------------------------------------------------
(* Properties of the graph view (checked under FrontendSpec) *)

GraphRequestOnly == [graph |-> 1, detect |-> 0, analyze |-> 0]

\* C16: mounting the view or changing timeRange or minStrength issues only a
\* graph request, and a detect-clusters request is issued only as the direct
\* result of the user's 'Detect Clusters' action, after which exactly one
\* graph reload follows.
C16_DetectOnlyOnActionThenOneReload ==
    /\ view.step \in {"mount", "setTimeRange", "setMinStrength"}
        => view.issued = GraphRequestOnly
    /\ view.issued.detect > 0
        => view.step = "clickDetectClusters" /\ view.issued.detect = 1
    /\ view.step \in {"detectResolved", "detectRejected"}
        => view.issued = GraphRequestOnly

\* C16, amended: as above, but the graph reload follows only a successful
\* detect-clusters request; after a failed one no request follows.
C16_DetectOnlyOnActionReloadOnSuccess ==
    /\ view.step \in {"mount", "setTimeRange", "setMinStrength"}
        => view.issued = GraphRequestOnly
    /\ view.issued.detect > 0
        => view.step = "clickDetectClusters" /\ view.issued.detect = 1
    /\ view.step = "detectResolved" => view.issued = GraphRequestOnly
    /\ view.step = "detectRejected" => view.issued = NoRequests

\* The detect-clusters request of a click has succeeded and the view is
\* reloading the graph for it.
C16_Witness ==
    /\ view.step = "detectResolved"
    /\ view.handler = 1
    /\ view.analyzing
    /\ view.loading

---------------------------------------------------------------------------
(* Properties of the graph endpoint with several users (OwnerSpec) *)

\* The ids of the requesting user's memories inside the requested time range
OwnInRange ==
    {memories[k].id : k \in {l \in 1..Len(memories) :
        /\ memories[l].user_id = response.current_user
        /\ \/ response.time_range = "all"
           \/ Now - memories[l].created_at <= 2 * RangeDays(response.time_range)}}

\* C21: in every graph result the node set is exactly the requesting user's
\* memories that fall inside the requested time range (all of them for
\* "all"), and both endpoints of every returned edge are ids of returned
\* nodes.
C21_NodesAreOwnMemoriesInRange ==
    (response.kind = "graph" /\ response.graph.status = "ok")
    => /\ NodeIds(response.graph.nodes) = OwnInRange
       /\ Len(response.graph.nodes) = Cardinality(OwnInRange)
       /\ \A e \in EdgeSet(response.graph) :
              Endpoints(e) \subseteq NodeIds(response.graph.nodes)

\* A graph for the past week with an edge, computed while the collection
\* also holds a memory of another user that was created within that week.
C21_Witness ==
    /\ response.kind = "graph"
    /\ response.graph.status = "ok"
    /\ response.time_range = "week"
    /\ response.graph.edges # <<>>
    /\ \E k \in 1..Len(memories) :
           /\ memories[k].user_id # response.current_user
           /\ Now - memories[k].created_at <= 2 * RangeDays("week")

---------------------------------------------------------------------------
(* Properties of keyword extraction (checked under KeywordSpec) *)

\* The positions at which a word of the text starts: a word is a maximal
\* run of letters, digits and underscores
WordStarts(text) ==
    {i \in 1..Len(text) :
        IsWordChar(text[i]) /\ (i = 1 \/ ~IsWordChar(text[i - 1]))}

\* The position at which the word that starts at i ends
WordEnd(text, i) ==
    CHOOSE j \in i..Len(text) :
        /\ \A k \in i..j : IsWordChar(text[k])
        /\ j = Len(text) \/ ~IsWordChar(text[j + 1])

\* The lower-cased word of the text that starts at i
LowerWordAt(text, i) == toLowerCase(SubSeq(text, i, WordEnd(text, i)))

\* The start positions of the words that qualify as keywords
QualifyingStarts(text) ==
    {i \in WordStarts(text) :
        /\ Len(LowerWordAt(text, i)) > 3
        /\ LowerWordAt(text, i) \notin stopWords}

\* C22: every keyword returned is a lower-cased word of the text with
\* length > 3 that is not in the stop-word list, keywords appear in text
\* order, and at most 10 are returned: the k-th keyword is the k-th
\* qualifying word of the text, for the first 10 of them.
C22_KeywordsAreQualifyingWordsInOrder ==
    kw.done
    => LET starts == QualifyingStarts(kw.text)
           n == Cardinality(starts)
       IN  /\ Len(kw.keywords) = (IF n < 10 THEN n ELSE 10)
           /\ \A k \in 1..Len(kw.keywords) :
                  /\ Len(kw.keywords[k]) > 3
                  /\ kw.keywords[k] \notin stopWords
                  /\ \A l \in 1..Len(kw.keywords[k]) :
                         LowerChar(kw.keywords[k][l]) = kw.keywords[k][l]
                  /\ \E i \in starts :
                         /\ kw.keywords[k] = LowerWordAt(kw.text, i)
                         /\ Cardinality({j \in starts : j < i}) = k - 1

\* A text with more than ten qualifying words, with upper-case letters,
\* punctuation inside words and stop words: ten keywords are returned.
C22_Witness ==
    /\ kw.done
    /\ Len(kw.keywords) = 10
    /\ Cardinality(QualifyingStarts(kw.text)) > 10
    /\ \E k \in 1..Len(kw.text) : kw.text[k] = "'"
    /\ \E k \in 1..Len(kw.text) : kw.text[k] = "H"

---------------------------------------------------------------------------
(* Properties of the memory card (checked under CardSpec) *)

\* C23: clicking the delete button of a memory card invokes the card's
\* onDelete callback exactly once per click, with the id of the displayed
\* memory as its argument.
C23_OnDeleteCalledOnceWithId ==
    card.rendered
    => /\ Len(card.calls) = card.clicks
       /\ \A k \in 1..Len(card.calls) : card.calls[k] = [kind |-> "id", id |-> card.id]

---------------------------------------------------------------------------
(* Properties of response routing (checked under AISpec) *)

\* C24: the AI provider setting is honoured by response routing: a response
\* generated while aiProvider is 'local' never has source 'cloud', and a
\* response generated while aiProvider is 'cloud' never has source 'local'.
C24_ProviderSettingHonoured ==
    ai.done
    => /\ ai.result.aiProvider = "local" => ai.result.source # "cloud"
       /\ ai.result.aiProvider = "cloud" => ai.result.source # "local"

\* C25: generateResponse never rejects, its cost is 0, and it follows the
\* chain local -> cloud -> enhanced-local: source 'local' only when local
\* is to be used and the local call produced a response; otherwise 'cloud'
\* only when useCloudFallback is set and the cloud call produced a
\* response; otherwise, neither call having produced a response nor
\* thrown, 'enhanced-local'.
C25_FallbackChain ==
    ai.done
    => LET r == ai.result
           local_produced ==
               /\ r.localAIAvailable
               /\ r.preferLocal \/ r.aiProvider = "local"
               /\ r.local = "text"
           cloud_produced == r.useCloudFallback /\ r.cloud = "text"
       IN  /\ ~r.rejected
           /\ r.cost = 0
           /\ r.source = "local" <=> local_produced
           /\ r.source = "cloud" <=> ~local_produced /\ cloud_produced
           /\ ~local_produced /\ ~cloud_produced /\ r.local # "throws" /\ r.cloud # "throws"
                  => r.source = "enhanced-local"

---------------------------------------------------------------------------
(* Properties of the graph view under concurrent requests *)

\* C26: once all outstanding graph requests have settled (and the view
\* shows a graph, not the error view), the displayed graphData is the
\* response to the most recently issued graph request and was computed for
\* the currently selected timeRange and minStrength; and loading is false
\* only when no graph request is in flight.  (RaceSpec)
C26_LatestResponseShown ==
    view.mounted
    => /\ (GraphPending(view) = {} /\ ~view.error)
           => /\ view.graphData.seq = view.latest
              /\ view.graphData.timeRange = view.timeRange
              /\ view.graphData.minStrength = view.minStrength
       /\ ~view.loading => GraphPending(view) = {}

\* C27: the analyzing flag is a mutual exclusion: at most one
\* analyze-relationships or detect-clusters operation is in flight at any
\* time, and analyzing is true while one is.  (FrontendSpec)
C27_AnalyzingIsMutex ==
    /\ view.detect + view.analyze + view.handler <= 1
    /\ view.detect + view.analyze + view.handler = 1 => view.analyzing

---------------------------------------------------------------------------
(* Properties of saving and deleting memories (checked under AppSpec) *)

\* C28: saving is all-or-nothing for the local state: after a failed
\* createMemory the memories list and the draft are as before; after a
\* successful one exactly the returned memory is prepended to the list and
\* the draft is cleared; in both cases aiGenerating is false; no two saves
\* are in flight together; a save with empty or blank text issues no
\* request and changes no state.
C28_SaveAllOrNothing ==
    /\ app.last.step = "saveFailed"
           => /\ app.memories = app.last.memories
              /\ app.draft = app.last.draft
              /\ ~app.aiGenerating
    /\ app.last.step = "saveSucceeded"
           => /\ app.memories = <<app.last.returned>> \o app.last.memories
              /\ app.draft = ""
              /\ ~app.aiGenerating
    /\ Cardinality(app.saves) <= 1
    /\ app.last.step = "saveBlank"
           => /\ app.memories = app.last.memories
              /\ app.draft = app.last.draft
              /\ app.aiGenerating = app.last.aiGenerating
              /\ Cardinality(app.saves) + Cardinality(app.deletes) = app.last.requests

\* C29: under interleaved saves and deletes (the initial getMemories having
\* settled before any of them started) a memory whose deletion succeeded is
\* never in the list, a memory whose save succeeded and that was not
\* deleted is always in it, and a failed delete leaves the list unchanged.
C29_ListConsistentWithBackend ==
    ~app.lateFetch
    => /\ \A id \in app.deleted : id \notin Elements(app.memories)
       /\ \A id \in app.saved \ app.deleted : id \in Elements(app.memories)
       /\ app.last.step = "deleteFailed" => app.memories = app.last.memories

---------------------------------------------------------------------------
(* Properties of the auth API (checked under AuthSpec) *)

=============================================================================
